---------------------------- MODULE Spec2Model ----------------------------
(***************************************************************************)
(* A model of the flash-card generator (flashcards/flashcards.py and       *)
(* flashcards/__main__.py).                                                *)
(*                                                                         *)
(* Words are sequences of code points (32 is the space, 97 is "a"), so     *)
(* that str.strip() and the ordering used by sorted() are computed and not *)
(* assumed.  Lengths are exact rationals <<numerator, denominator>> in     *)
(* lowest terms with a positive denominator: the program computes with     *)
(* binary floating point, whose rounding is not modelled.                  *)
(***************************************************************************)
EXTENDS Integers, Sequences, FiniteSets, TLC

VARIABLES
    \* ---- the run of __main__ over the word groups
    pc,                  \* "group" (top of the for loop), "generate", "written", "done"
    gi,                  \* number of groups taken from the sorted input so far
    group,               \* the group being processed: its raw words and config
    words,               \* first result of extract_valid_words (line 212)
    invalid,             \* second result of extract_valid_words (line 212)
    pdf,                 \* the pages of the current group's file, in order
    total_words,         \* line 186 / 229
    already_seen_words,  \* line 187 / 230
    emitted,             \* history: the texts of all pages of all files so far
    any_allow_repeated,  \* history: some processed group had allow_repeated
    \* ---- generate_math
    math_pc,             \* "sampling" (line 73), "save" (line 98), "saved"
    math_config,         \* the config generate_math is called with
    center,              \* line 62
    dots_wanted,         \* line 69
    dots,                \* line 71 / 85
    attempt_number,      \* line 72 / 74 / 87
    search_radius,       \* reducer, x_max and y_max of the last attempt (lines 75-77)
    pages_shown,         \* number of c.showPage() calls (line 89)
    \* ---- one candidate of generate_math (lines 74-82)
    candidate,           \* the attempt number, the spans drawn and the position
    \* ---- one call of parse_color
    color_value,         \* the argument, a string
    color_result,        \* the colour returned, or the ValueError raised
    \* ---- one call of generate with a single word
    fit_input,           \* the word and the config
    fit_pages            \* the pages generate draws for it

run_vars == <<pc, gi, group, words, invalid, pdf, total_words,
              already_seen_words, emitted, any_allow_repeated>>

math_vars == <<math_pc, math_config, center, dots_wanted, dots, attempt_number,
              search_radius,
              pages_shown>>

color_vars == <<color_value, color_result>>

fit_vars == <<fit_input, fit_pages>>

vars == <<run_vars, math_vars, candidate, color_vars, fit_vars>>

----------------------------------------------------------------------------
(* Bounds of the model *)

\* number of groups of the input file
MaxGroups == 2
\* number of words of one group
MaxWords == 2
\* the last target count of generate_math (the program's is 100, line 69)
LastDotsWanted == 2
\* attempts of generate_math between two accepted dots
MaxAttempts == 45
\* length of the string given to parse_color
MaxColorLen == 8
\* letters of the longest word generate is given on its own
MaxLetters == 24

----------------------------------------------------------------------------
(* Exact rational arithmetic *)

RECURSIVE GCD(_, _)
GCD(a, b) == IF b = 0 THEN a ELSE GCD(b, a % b)

Abs(n) == IF n < 0 THEN -n ELSE n

\* n/d in lowest terms, d > 0
Rat(n, d) ==
    LET g == GCD(Abs(n), Abs(d))
        s == IF d < 0 THEN -1 ELSE 1
    IN  <<(s * n) \div g, (s * d) \div g>>

RInt(n) == <<n, 1>>
RMul(a, b) == Rat(a[1] * b[1], a[2] * b[2])
RDiv(a, b) == Rat(a[1] * b[2], a[2] * b[1])
RSub(a, b) == Rat(a[1] * b[2] - b[1] * a[2], a[2] * b[2])
RLess(a, b) == a[1] * b[2] < b[1] * a[2]
RLeq(a, b) == a[1] * b[2] <= b[1] * a[2]

----------------------------------------------------------------------------
(* Strings *)

\* None, which is no string: a code point no character has
NoneWord == <<-1>>
EmptyWord == <<>>

IsSpace(c) == c \in {9, 10, 11, 12, 13, 32}

RECURSIVE LStrip(_)
LStrip(w) == IF w # <<>> /\ IsSpace(Head(w)) THEN LStrip(Tail(w)) ELSE w

RECURSIVE RStrip(_)
RStrip(w) ==
    IF w # <<>> /\ IsSpace(w[Len(w)]) THEN RStrip(SubSeq(w, 1, Len(w) - 1)) ELSE w

\* str.strip()
Strip(w) == RStrip(LStrip(w))

\* a < b for Python strings: lexicographic on code points
LexLess(a, b) ==
    \E i \in 1..(Len(a) + 1) :
        /\ i <= Len(b)
        /\ \A j \in 1..(i - 1) : a[j] = b[j]
        /\ (i = Len(a) + 1 \/ a[i] < b[i])

RECURSIVE InsertSorted(_, _)
InsertSorted(x, s) ==
    IF s = <<>> THEN <<x>>
    ELSE IF LexLess(Head(s), x) THEN <<Head(s)>> \o InsertSorted(x, Tail(s))
    ELSE <<x>> \o s

\* sorted(list)
RECURSIVE Sorted(_)
Sorted(s) == IF s = <<>> THEN <<>> ELSE InsertSorted(Head(s), Sorted(Tail(s)))

\* sorted(set)
RECURSIVE SortedSet(_)
SortedSet(S) ==
    IF S = {} THEN <<>>
    ELSE LET x == CHOOSE y \in S : TRUE
         IN  InsertSorted(x, SortedSet(S \ {x}))

Range(s) == {s[i] : i \in DOMAIN s}

----------------------------------------------------------------------------
(* flashcards.py: the word pipeline *)

\* Counter(words)[word]
CountOf(word, ws) == Cardinality({i \in DOMAIN ws : ws[i] = word})

extract_valid_words_KeepSeen(ws, seen, allow_repeated) ==
    IF allow_repeated
    THEN [words |-> Sorted(ws), invalid |-> {}]
    ELSE [words |-> SortedSet(Range(ws)),
          invalid |-> {w \in Range(ws) : CountOf(w, ws) > 1}]

\* extract_valid_words; the None of the allow_repeated branch is the empty report
extract_valid_words(ws, seen, allow_repeated) ==
    IF allow_repeated
    THEN [words |-> Sorted(ws), invalid |-> {}]
    ELSE LET repeated_words == {w \in Range(ws) : CountOf(w, ws) > 1}
             words_in_group == Range(ws)
             new_words      == words_in_group \ seen
             ignored_words  == words_in_group \ new_words
         IN  [words |-> SortedSet(new_words),
              invalid |-> repeated_words \cup ignored_words]

\* width of a glyph of the font in thousandths of the font size (Helvetica)
GlyphWidth(c) == IF c = 32 THEN 278 ELSE 556

RECURSIVE GlyphSum(_)
GlyphSum(w) == IF w = <<>> THEN 0 ELSE GlyphWidth(Head(w)) + GlyphSum(Tail(w))

\* stringWidth(word, font_name, font_size), in points
stringWidth(word, font_size) == Rat(GlyphSum(word) * font_size, 1000)

\* reportlab.lib.units.mm: 72 / 25.4 points
mm == Rat(720, 254)

\* config.page_width after line 205, in points
page_width(config) == RMul(RInt(config.page_width), mm)

reduction_safe_margin == Rat(10, 100)

\* reduce_font_size_to_fit
reduce_font_size_to_fit(word_width, config) ==
    LET reduce_ratio == RSub(RDiv(page_width(config), word_width),
                             reduction_safe_margin)
    IN  RMul(RInt(config.font_size), reduce_ratio)

\* the test of line 30
TooWide(word_width, config) ==
    RLess(config.max_allowed_text_width_ratio,
          RDiv(word_width, page_width(config)))

\* the page of a word
Page(word, word_width, config) ==
    [text |-> word,
     font_size |-> IF TooWide(word_width, config)
                   THEN reduce_font_size_to_fit(word_width, config)
                   ELSE RInt(config.font_size)]

RECURSIVE generate_Break(_, _)
generate_Break(ws, config) ==
    IF ws = <<>> THEN <<>>
    ELSE LET word == Strip(Head(ws))
             word_width == stringWidth(word, config.font_size)
         IN  IF TooWide(word_width, config) /\ config.disable_reduce_to_fit
             THEN <<>>
             ELSE <<Page(word, word_width, config)>> \o generate_Break(Tail(ws), config)

\* generate: the pages drawn for the words, in order
RECURSIVE generate(_, _)
generate(ws, config) ==
    IF ws = <<>> THEN <<>>
    ELSE LET word == Strip(Head(ws))
             word_width == stringWidth(word, config.font_size)
             rest == generate(Tail(ws), config)
         IN  IF TooWide(word_width, config) /\ config.disable_reduce_to_fit
             THEN rest
             ELSE <<Page(word, word_width, config)>> \o rest

----------------------------------------------------------------------------
(* __main__.py: the run over the groups *)

\* the words an input file may hold: "a", " a", "aa" and "b"
InputWords == {<<97>>, <<32, 97>>, <<97, 97>>, <<98>>}

Lists(S, n) ==
    UNION {[1..k -> S] : k \in 0..n}

\* the configurations of a group: the command line's values and the group's overrides
\* (font size 10: "a" is 5.56 points wide and "aa" 11.12; the page is 11.34 points
\* wide with ratio 0.95, or 14.17 points wide with ratio 0.5)
Configs ==
    {[allow_repeated |-> ar,
      disable_reduce_to_fit |-> drf,
      font_size |-> 10,
      page_width |-> pr[1],
      max_allowed_text_width_ratio |-> pr[2],
      math |-> FALSE] :
        ar \in BOOLEAN, drf \in BOOLEAN, pr \in {<<4, <<19, 20>>>>, <<5, <<1, 2>>>>}}

\* the word lists of a group
InputLists == Lists(InputWords, MaxWords)

\* before a group is taken, and a group with the math key
NoGroup == [words |-> <<>>, config |-> [math |-> FALSE]]
MathGroupValue == [words |-> <<>>, config |-> [math |-> TRUE]]

\* set(["", None]) of line 187
InitiallySeen == {EmptyWord, NoneWord}

Texts(pages) == {pages[i].text : i \in DOMAIN pages}

RunInit ==
    /\ pc = "group"
    /\ gi = 0
    /\ group = NoGroup
    /\ words = <<>>
    /\ invalid = {}
    /\ pdf = <<>>
    /\ total_words = 0
    /\ already_seen_words = InitiallySeen
    /\ emitted = {}
    /\ any_allow_repeated = FALSE

\* lines 188-212: the next group in sorted order is a list of words
ExtractGroup ==
    /\ pc = "group"
    /\ gi < MaxGroups
    /\ \E ws \in InputLists, config \in Configs :
          LET r == extract_valid_words(ws, already_seen_words, config.allow_repeated)
          IN  /\ group' = [words |-> ws, config |-> config]
              /\ words' = r.words
              /\ invalid' = r.invalid
              /\ any_allow_repeated' = (any_allow_repeated \/ config.allow_repeated)
    /\ gi' = gi + 1
    /\ pc' = "generate"
    /\ UNCHANGED <<pdf, total_words, already_seen_words, emitted>>
    /\ UNCHANGED <<math_vars, candidate, color_vars, fit_vars>>

\* lines 208-210: the next group has the math key; generate_math is given
\* neither the words nor the seen-set
MathGroup ==
    /\ pc = "group"
    /\ gi < MaxGroups
    /\ group' = MathGroupValue
    /\ gi' = gi + 1
    /\ pc' = "written"
    /\ UNCHANGED <<words, invalid, pdf, total_words, already_seen_words,
                   emitted, any_allow_repeated>>
    /\ UNCHANGED <<math_vars, candidate, color_vars, fit_vars>>

GenerateGroup_Replace ==
    /\ pc = "generate"
    /\ LET pages == generate(words, group.config)
           generated == [i \in DOMAIN pages |-> pages[i].text]
       IN  /\ pdf' = pages
           /\ total_words' = total_words + Len(generated)
           /\ already_seen_words' = Range(generated)
           /\ emitted' = emitted \cup Range(generated)
    /\ pc' = "written"
    /\ UNCHANGED <<gi, group, words, invalid, any_allow_repeated>>
    /\ UNCHANGED <<math_vars, candidate, color_vars, fit_vars>>

\* lines 227-230
GenerateGroup ==
    /\ pc = "generate"
    /\ LET pages == generate(words, group.config)
           generated == [i \in DOMAIN pages |-> pages[i].text]
       IN  /\ pdf' = pages
           /\ total_words' = total_words + Len(generated)
           /\ already_seen_words' = already_seen_words \cup Range(generated)
           /\ emitted' = emitted \cup Range(generated)
    /\ pc' = "written"
    /\ UNCHANGED <<gi, group, words, invalid, any_allow_repeated>>
    /\ UNCHANGED <<math_vars, candidate, color_vars, fit_vars>>

\* line 188: the loop goes to its next iteration, whose group, config, words and
\* canvas replace this iteration's
NextGroup ==
    /\ pc = "written"
    /\ pc' = "group"
    /\ group' = NoGroup
    /\ words' = <<>>
    /\ invalid' = {}
    /\ pdf' = <<>>
    /\ UNCHANGED <<gi, total_words, already_seen_words, emitted, any_allow_repeated>>
    /\ UNCHANGED <<math_vars, candidate, color_vars, fit_vars>>

\* lines 232-236: the input has no further group
Finish ==
    /\ pc = "group"
    /\ pc' = "done"
    /\ UNCHANGED <<gi, group, words, invalid, pdf, total_words,
                   already_seen_words, emitted, any_allow_repeated>>
    /\ UNCHANGED <<math_vars, candidate, color_vars, fit_vars>>

----------------------------------------------------------------------------
(* flashcards.py: generate_math *)

(* Positions are in units of 1/254000 point, in which the page sizes           *)
(* (millimetres times 72/25.4), the safe margin (3.2 font sizes) and the font  *)
(* height (thousandths of the font size, halved) are all whole numbers.        *)
Unit == 127 * 2000

\* reportlab.lib.units.mm in units
MmUnits == (720 * Unit) \div 254

\* config.page_width and config.page_height after lines 204-205
math_page_width(config) == config.page_width * MmUnits
math_page_height(config) == config.page_height * MmUnits

\* face.ascent and face.descent of the standard fonts
FaceAscent(font_name) == IF font_name = "Helvetica" THEN 718 ELSE 0
FaceDescent(font_name) == IF font_name = "Helvetica" THEN -207 ELSE 0

\* font_height of get_word_centered_position, in units
font_height(config, font_size) ==
    LET ascent == (FaceAscent(config.font_name) * font_size) * (Unit \div 1000)
        descent == (Abs(FaceDescent(config.font_name)) * font_size) * (Unit \div 1000)
    IN  ascent - descent

get_word_centered_position_PageCenter(config, font_size) ==
    <<math_page_width(config) \div 2, math_page_height(config) \div 2>>

\* get_word_centered_position
get_word_centered_position(config, font_size) ==
    LET center_width == math_page_width(config) \div 2
        center_height == math_page_height(config) \div 2
                           - font_height(config, font_size) \div 2
    IN  <<center_width, center_height>>

min_distance == 45

\* distance_between_points(a, b) < min_distance; two positions of one run differ
\* by whole points
overlaps(a, b) ==
    LET x_dist == (a[1] - b[1]) \div Unit
        y_dist == (a[2] - b[2]) \div Unit
    IN  (x_dist * x_dist) + (y_dist * y_dist) < min_distance * min_distance

overlaps_any_Never(proposed_dot, ds) == FALSE

overlaps_any(proposed_dot, ds) ==
    \E i \in DOMAIN ds : overlaps(ds[i], proposed_dot)

\* font_size * 3.2, in units
safe_margin(config) == (config.font_size * 32) * (Unit \div 10)

\* the tests of outside_page on x, and those on y
outside_width(x, config) ==
    x < safe_margin(config) \/ math_page_width(config) - x < safe_margin(config)
outside_height(y, config) ==
    y < safe_margin(config) \/ math_page_height(config) - y < safe_margin(config)

outside_page(position, config) ==
    LET x == position[1]
        y == position[2]
    IN  outside_width(x, config) \/ outside_height(y, config)

\* int(attempt_number * config.font_size * 0.3)
reducer(config, attempt) == (attempt * config.font_size * 3) \div 10

Min(a, b) == IF a < b THEN a ELSE b

\* lines 76-77; page_width // 2 is the floor of the half width in points
x_max(config, attempt) ==
    Min(reducer(config, attempt), math_page_width(config) \div (2 * Unit))
y_max(config, attempt) ==
    Min(reducer(config, attempt), math_page_height(config) \div (2 * Unit))

\* lines 75-77 without the caps
SearchRadius_Uncapped(config, attempt) ==
    [reducer |-> reducer(config, attempt),
     x_max |-> reducer(config, attempt),
     y_max |-> reducer(config, attempt)]

\* lines 75-77: the three locals an attempt computes from attempt_number
SearchRadius(config, attempt) ==
    [reducer |-> reducer(config, attempt),
     x_max |-> x_max(config, attempt),
     y_max |-> y_max(config, attempt)]

\* reducer, x_max and y_max are not assigned before the first attempt
NoRadius == [reducer |-> -1, x_max |-> -1, y_max |-> -1]

\* line 62
Center(config) == get_word_centered_position(config, config.font_size)

\* lines 79-82
Position(xy, x_span, y_span) ==
    <<xy[1] + x_span * Unit, xy[2] + y_span * Unit>>

\* the configurations generate_math is run with: pages on which two dots fit, for
\* a small font size in two fonts and for a font size above half the minimal
\* distance, and the program's defaults
MathConfigs ==
    {[font_size |-> 2, font_name |-> "Helvetica", page_width |-> 21, page_height |-> 5],
     [font_size |-> 2, font_name |-> "Symbol", page_width |-> 21, page_height |-> 5],
     [font_size |-> 23, font_name |-> "Helvetica", page_width |-> 69, page_height |-> 53],
     [font_size |-> 250, font_name |-> "Helvetica", page_width |-> 440, page_height |-> 99]}

NoConfig == [font_size |-> 1, font_name |-> "Helvetica", page_width |-> 1, page_height |-> 1]

\* the test of line 83
Rejected(position, config, ds) ==
    outside_page(position, config) \/ overlaps_any(position, ds)

\* generate_math is not running
MathIdle ==
    /\ math_pc = "idle"
    /\ math_config = NoConfig
    /\ center = <<0, 0>>
    /\ dots_wanted = 0
    /\ dots = <<>>
    /\ attempt_number = 0
    /\ search_radius = NoRadius
    /\ pages_shown = 0

\* lines 57-72: generate_math has reached the while loop of its first count
MathInit ==
    /\ math_pc = "sampling"
    /\ math_config \in MathConfigs
    /\ center = Center(math_config)
    /\ dots_wanted = 1
    /\ dots = <<>>
    /\ attempt_number = 5
    /\ search_radius = NoRadius
    /\ pages_shown = 0

\* lines 73-87: one attempt of the while loop
Attempt ==
    /\ math_pc = "sampling"
    /\ Len(dots) < dots_wanted
    /\ attempt_number < 5 + MaxAttempts
    /\ LET attempt == attempt_number + 1
           radius == SearchRadius(math_config, attempt)
           x_spans == -radius.x_max..radius.x_max
           y_spans == -radius.y_max..radius.y_max
           x_inside ==
               {s \in x_spans : ~outside_width(center[1] + s * Unit, math_config)}
           y_inside ==
               {s \in y_spans : ~outside_height(center[2] + s * Unit, math_config)}
       IN  /\ search_radius' = radius
           /\ \/ /\ TRUE = \E x_span \in x_spans, y_span \in y_spans :
                       Rejected(Position(center, x_span, y_span), math_config, dots)
                 /\ attempt_number' = attempt
                 /\ dots' = dots
              \* (a span outside the page in its own axis is rejected whatever the
              \* other span is: those are skipped before the pairs are tested)
              \/ \E x_span \in x_inside, y_span \in y_inside :
                    LET position == Position(center, x_span, y_span)
                    IN  /\ ~Rejected(position, math_config, dots)
                        /\ dots' = Append(dots, position)
                        /\ attempt_number' = 5
    /\ UNCHANGED <<math_pc, math_config, center, dots_wanted, pages_shown>>
    /\ UNCHANGED <<run_vars, candidate, color_vars, fit_vars>>

\* lines 89-95 and 69-72: the page is shown and the next count begins
ShowPage ==
    /\ math_pc = "sampling"
    /\ Len(dots) = dots_wanted
    /\ pages_shown' = pages_shown + 1
    /\ IF dots_wanted < LastDotsWanted
       THEN /\ dots_wanted' = dots_wanted + 1
            /\ dots' = <<>>
            /\ attempt_number' = 5
            /\ math_pc' = "sampling"
       ELSE /\ math_pc' = "save"
            /\ UNCHANGED <<dots_wanted, dots, attempt_number>>
    /\ UNCHANGED <<math_config, center, search_radius>>
    /\ UNCHANGED <<run_vars, candidate, color_vars, fit_vars>>

\* line 98
Save ==
    /\ math_pc = "save"
    /\ math_pc' = "saved"
    /\ UNCHANGED <<math_config, center, dots_wanted, dots, attempt_number, search_radius,
                   pages_shown>>
    /\ UNCHANGED <<run_vars, candidate, color_vars, fit_vars>>

NoCandidate == [attempt_number |-> 0]

\* the configurations a candidate is drawn for
CandidateConfigs ==
    {[font_size |-> fs, font_name |-> fn, page_width |-> 21, page_height |-> 5] :
        fs \in {1, 2}, fn \in {"Helvetica", "Symbol"}}

\* lines 74-82 for any config and attempt number: the candidate of one attempt
DrawCandidate ==
    /\ candidate = NoCandidate
    /\ \E config \in CandidateConfigs, attempt \in 6..(5 + MaxAttempts) :
          \E x_span \in -x_max(config, attempt)..x_max(config, attempt),
             y_span \in -y_max(config, attempt)..y_max(config, attempt) :
              candidate' = [attempt_number |-> attempt,
                            config |-> config,
                            x_span |-> x_span,
                            y_span |-> y_span,
                            position |-> Position(Center(config), x_span, y_span)]
    /\ UNCHANGED <<run_vars, math_vars, color_vars, fit_vars>>

----------------------------------------------------------------------------
(* __main__.py: parse_color *)

IsDigit(c) == c \in 48..57
IsHexDigit(c) == c \in (48..57) \cup (65..70) \cup (97..102)

\* str.lower() of one character
Lower(c) == IF c \in 65..90 THEN c + 32 ELSE c

LowerCase(s) == [i \in DOMAIN s |-> Lower(s[i])]

\* int(s, 16) of lower-case hexadecimal digits
RECURSIVE HexValue(_)
HexValue(s) ==
    IF s = <<>> THEN 0
    ELSE LET c == s[Len(s)]
             v == IF IsDigit(c) THEN c - 48 ELSE c - 87
         IN  HexValue(SubSeq(s, 1, Len(s) - 1)) * 16 + v

\* int(s) of decimal digits
RECURSIVE IntValue(_)
IntValue(s) ==
    IF s = <<>> THEN 0
    ELSE IntValue(SubSeq(s, 1, Len(s) - 1)) * 10 + (s[Len(s)] - 48)

\* HexColor('0x...'): the value's three low bytes are red, green and blue
HexColor(hex) ==
    LET v == HexValue(hex)
    IN  [kind |-> "rgb",
         channels |-> <<(v \div 65536) % 256, (v \div 256) % 256, v % 256>>]

\* PCMYKColor(*cmyk)
PCMYKColor(cmyk) == [kind |-> "cmyk", channels |-> cmyk]

ValueError == [kind |-> "ValueError", channels |-> <<>>]

\* "#" at i followed by n hexadecimal digits
HexDigitsAt(s, i, n) ==
    /\ s[i] = 35
    /\ i + n <= Len(s)
    /\ \A k \in 1..n : IsHexDigit(s[i + k])

\* COLOR_HEXA_PATTERN.search(value): group 1 of the leftmost match, which takes
\* six digits where it can and three otherwise; <<>> when nothing matches
COLOR_HEXA_PATTERN_search(s) ==
    LET starts == {i \in DOMAIN s : HexDigitsAt(s, i, 6) \/ HexDigitsAt(s, i, 3)}
    IN  IF starts = {} THEN <<>>
        ELSE LET i == CHOOSE j \in starts : \A k \in starts : j <= k
             IN  IF HexDigitsAt(s, i, 6) THEN SubSeq(s, i + 1, i + 6)
                 ELSE SubSeq(s, i + 1, i + 3)

\* the last index of the run of digits that starts at i; i - 1 when s[i] is no digit
RECURSIVE DigitRunEnd(_, _)
DigitRunEnd(s, i) ==
    IF i <= Len(s) /\ IsDigit(s[i]) THEN DigitRunEnd(s, i + 1) ELSE i - 1

\* the last index of the match of n comma-separated numbers at i, or 0: \d+ is
\* greedy, and no shorter run of digits is followed by a comma
RECURSIVE NumbersEnd(_, _, _)
NumbersEnd(s, i, n) ==
    LET e == DigitRunEnd(s, i)
    IN  IF e < i THEN 0
        ELSE IF n = 1 THEN e
        ELSE IF e + 1 <= Len(s) /\ s[e + 1] = 44 THEN NumbersEnd(s, e + 2, n - 1)
        ELSE 0

\* COLOR_CMYK_PATTERN.search(value): group 1 of the leftmost match, or <<>>
COLOR_CMYK_PATTERN_search(s) ==
    LET starts == {i \in DOMAIN s : NumbersEnd(s, i, 4) # 0}
    IN  IF starts = {} THEN <<>>
        ELSE LET i == CHOOSE j \in starts : \A k \in starts : j <= k
             IN  SubSeq(s, i, NumbersEnd(s, i, 4))

\* s.split(",")
RECURSIVE Split(_)
Split(s) ==
    IF \A i \in DOMAIN s : s[i] # 44 THEN <<s>>
    ELSE LET i == CHOOSE j \in DOMAIN s : s[j] = 44 /\ \A k \in 1..(j - 1) : s[k] # 44
         IN  <<SubSeq(s, 1, i - 1)>> \o Split(SubSeq(s, i + 1, Len(s)))

parse_color(value) ==
    LET hexa == COLOR_HEXA_PATTERN_search(value)
        cmyk == COLOR_CMYK_PATTERN_search(value)
    IN  IF hexa # <<>> THEN HexColor(LowerCase(hexa))
        ELSE IF cmyk # <<>>
             THEN PCMYKColor([i \in DOMAIN Split(cmyk) |-> IntValue(Split(cmyk)[i])])
        ELSE ValueError

\* the characters of a color string: "#", ",", "1" and "F"
ColorAlphabet == {35, 44, 49, 70}

ColorStrings == Lists(ColorAlphabet, MaxColorLen)

NotParsed == [kind |-> "none", channels |-> <<>>]

ColorIdle == color_value = <<>> /\ color_result = NotParsed

ColorInit == color_value \in ColorStrings /\ color_result = NotParsed

\* lines 59-69
ParseColor ==
    /\ color_result = NotParsed
    /\ color_result' = parse_color(color_value)
    /\ UNCHANGED <<color_value, run_vars, math_vars, candidate, fit_vars>>

----------------------------------------------------------------------------
(* flashcards.py: generate for one word, whatever its width *)

\* the word of n letters "a"
Letters(n) == [i \in 1..n |-> 97]

\* the configurations of the call: font size 10 (an "a" is 5.56 points wide) on a
\* page 4 or 5 mm wide, with a ratio threshold of 0.5, 0.95 (the default) or 1
FitConfigs ==
    {[allow_repeated |-> FALSE,
      disable_reduce_to_fit |-> drf,
      font_size |-> 10,
      page_width |-> pw,
      max_allowed_text_width_ratio |-> ratio,
      math |-> FALSE] :
        drf \in BOOLEAN, pw \in {4, 5}, ratio \in {<<1, 2>>, <<19, 20>>, <<1, 1>>}}

\* generate has not run
NotGenerated == <<[text |-> NoneWord, font_size |-> RInt(0)]>>

FitIdle ==
    /\ fit_input = [word |-> <<>>, config |-> [math |-> FALSE]]
    /\ fit_pages = NotGenerated

FitInit ==
    /\ \E n \in 1..MaxLetters, config \in FitConfigs :
          fit_input = [word |-> Letters(n), config |-> config]
    /\ fit_pages = NotGenerated

\* lines 15-47 for a list of one word
GenerateWord ==
    /\ fit_pages = NotGenerated
    /\ fit_pages' = generate(<<fit_input.word>>, fit_input.config)
    /\ UNCHANGED <<fit_input, run_vars, math_vars, candidate, color_vars>>

----------------------------------------------------------------------------
(* The specifications *)

\* the run of __main__ over word groups
Init == RunInit /\ MathIdle /\ candidate = NoCandidate /\ ColorIdle /\ FitIdle

Next == ExtractGroup \/ MathGroup \/ GenerateGroup \/ NextGroup \/ Finish

Spec == Init /\ [][Next]_vars

\* one call of generate_math
MathSpecInit == RunInit /\ MathInit /\ candidate = NoCandidate /\ ColorIdle /\ FitIdle

MathNext == Attempt \/ ShowPage \/ Save

MathSpec == MathSpecInit /\ [][MathNext]_vars

\* the candidates of generate_math
CandidateInit == RunInit /\ MathIdle /\ candidate = NoCandidate /\ ColorIdle /\ FitIdle

CandidateNext == DrawCandidate

CandidateSpec == CandidateInit /\ [][CandidateNext]_vars

\* one call of parse_color
ColorSpecInit == RunInit /\ MathIdle /\ candidate = NoCandidate /\ ColorInit /\ FitIdle

ColorNext == ParseColor

ColorSpec == ColorSpecInit /\ [][ColorNext]_vars

\* generate for one word
FitSpecInit == RunInit /\ MathIdle /\ candidate = NoCandidate /\ ColorIdle /\ FitInit

FitNext == GenerateWord

FitSpec == FitSpecInit /\ [][FitNext]_vars

----------------------------------------------------------------------------
(* The word pipeline: extract_valid_words, generate and the seen-set *)

StrictlySorted(s) == \A i, j \in DOMAIN s : i < j => LexLess(s[i], s[j])

RepeatedInGroup(w) == CountOf(w, group.words) > 1

Extracted == pc = "generate" /\ ~group.config.allow_repeated

\* C1 as stated: with allow_repeated false the first result is the sorted list of
\* the distinct words of the group that are not in the seen-set, and every word
\* repeated in the group or in the seen-set is in the second result and not in
\* the first.
C1_RepeatedNeverEmitted ==
    Extracted =>
        /\ StrictlySorted(words)
        /\ Range(words) = Range(group.words) \ already_seen_words
        /\ \A w \in Range(group.words) :
              (RepeatedInGroup(w) \/ w \in already_seen_words)
                  => (w \in invalid /\ w \notin Range(words))

\* C1 amended: with allow_repeated false the first result is the sorted list of
\* the distinct words of the group that are not in the seen-set; every word
\* repeated in the group or in the seen-set is in the second result; a word of the
\* seen-set is never in the first result, and a word repeated in the group that is
\* not in the seen-set is in the first result exactly once.
C1_ExtractValidWords ==
    Extracted =>
        /\ StrictlySorted(words)
        /\ Range(words) = Range(group.words) \ already_seen_words
        /\ \A w \in Range(group.words) :
              /\ (RepeatedInGroup(w) \/ w \in already_seen_words) => w \in invalid
              /\ w \in already_seen_words => w \notin Range(words)
              /\ (RepeatedInGroup(w) /\ w \notin already_seen_words)
                    => CountOf(w, words) = 1

\* after words were emitted, a group whose repeated word is new: it is reported
\* and emitted
C1_Witness ==
    /\ Extracted
    /\ emitted # {}
    /\ \E w \in Range(group.words) :
          RepeatedInGroup(w) /\ w \in invalid /\ words = <<w>>

PairwiseDistinct(s) == \A i, j \in DOMAIN s : i # j => s[i] # s[j]

\* C2: while no group allows repeated words, the pages of a group's file show
\* pairwise different words, none of which is on a page of an earlier file.
C2_NoWordTwice ==
    [][(pc = "generate" /\ pc' = "written" /\ ~any_allow_repeated)
          => /\ PairwiseDistinct([i \in DOMAIN pdf' |-> pdf'[i].text])
             /\ Texts(pdf') \cap emitted = {}]_vars

\* the word of a page measured at the requested font size
MeasuredWidth(page, config) == stringWidth(page.text, config.font_size)

\* C6: a word whose width ratio is within the threshold is drawn at the requested
\* font size; any other word is drawn at font_size * (page_width / width - 0.10),
\* which is strictly smaller than the requested font size.
C6_FontFit ==
    (pc = "written" /\ ~group.config.math) =>
        \A i \in DOMAIN pdf :
            LET config == group.config
                width == MeasuredWidth(pdf[i], config)
            IN  IF RLeq(RDiv(width, page_width(config)),
                        config.max_allowed_text_width_ratio)
                THEN pdf[i].font_size = RInt(config.font_size)
                ELSE /\ pdf[i].font_size =
                          RMul(RInt(config.font_size),
                               RSub(RDiv(page_width(config), width), Rat(1, 10)))
                     /\ RLess(pdf[i].font_size, RInt(config.font_size))

\* a valid word is skipped: too wide while reduction is disabled
Skipped(w, config) ==
    /\ config.disable_reduce_to_fit
    /\ RLess(config.max_allowed_text_width_ratio,
             RDiv(stringWidth(Strip(w), config.font_size), page_width(config)))

KeptWords(ws, config) == SelectSeq(ws, LAMBDA w : ~Skipped(w, config))

\* C7: the pages of a group's file are, in order, the (stripped) valid words that
\* are not skipped; total_words grows by their number and the seen-set by them
\* alone; with reduction enabled every valid word has its page.
C7_SkipAndContinue ==
    [][(pc = "generate" /\ pc' = "written") =>
          LET kept == KeptWords(words, group.config)
          IN  /\ [i \in DOMAIN pdf' |-> pdf'[i].text]
                    = [i \in DOMAIN kept |-> Strip(kept[i])]
              /\ total_words' = total_words + Len(kept)
              /\ already_seen_words'
                    = already_seen_words \cup {Strip(kept[i]) : i \in DOMAIN kept}
              /\ ~group.config.disable_reduce_to_fit => Len(pdf') = Len(words)]_vars

\* a file where a word was skipped and a later word was drawn
C7_Witness ==
    /\ pc = "written"
    /\ ~group.config.math
    /\ \E i, j \in DOMAIN words :
          /\ i < j
          /\ Skipped(words[i], group.config)
          /\ ~Skipped(words[j], group.config)
          /\ Strip(words[j]) \in Texts(pdf)
          /\ Len(pdf) < Len(words)
          /\ total_words = Len(pdf)

\* C9: the seen-set only grows, it is its initial value united with the words
\* emitted so far, and neither extract_valid_words nor a math group changes it.
C9_SeenOnlyGrows ==
    /\ already_seen_words = InitiallySeen \cup emitted
    /\ [][/\ already_seen_words \subseteq already_seen_words'
          /\ already_seen_words' = InitiallySeen \cup emitted'
          /\ pc # "generate" => already_seen_words' = already_seen_words]_vars

\* words were emitted, and then a math group was processed
C9_Witness ==
    /\ pc = "written"
    /\ group.config.math
    /\ emitted # {}
    /\ already_seen_words = InitiallySeen \cup emitted

----------------------------------------------------------------------------
(* generate_math: the dots of a page *)

\* the squared distance of two positions, in points
SquaredDistance(a, b) ==
    LET dx == (a[1] - b[1]) \div Unit
        dy == (a[2] - b[2]) \div Unit
    IN  dx * dx + dy * dy

WholePointsApart(a, b) == (a[1] - b[1]) % Unit = 0 /\ (a[2] - b[2]) % Unit = 0

\* 3.2 * font_size, in units
MarginUnits == (math_config.font_size * 16 * Unit) \div 5

\* C3: every accepted dot is at least 3.2 font sizes from every edge of the page,
\* and two accepted dots of a page are at least 45 points apart.
C3_DotPlacement ==
    /\ \A i \in DOMAIN dots :
          /\ dots[i][1] >= MarginUnits
          /\ dots[i][2] >= MarginUnits
          /\ math_config.page_width * MmUnits - dots[i][1] >= MarginUnits
          /\ math_config.page_height * MmUnits - dots[i][2] >= MarginUnits
    /\ \A i, j \in DOMAIN dots :
          i # j => /\ WholePointsApart(dots[i], dots[j])
                   /\ SquaredDistance(dots[i], dots[j]) >= 45 * 45

\* the second page holds two dots exactly 45 points apart
C3_Witness ==
    /\ dots_wanted = 2
    /\ Len(dots) = 2
    /\ SquaredDistance(dots[1], dots[2]) = 45 * 45

\* the spans of the widest search range: the caps of lines 76-77
CappedSpansX == LET cap == math_page_width(math_config) \div (2 * Unit) IN -cap..cap
CappedSpansY == LET cap == math_page_height(math_config) \div (2 * Unit) IN -cap..cap

\* C4: generate_math terminates under a fair random choice.  The search range only
\* grows, up to its caps, while no dot is accepted, so that the loop of a count ends
\* under a fair choice exactly if, whenever a dot is missing, some candidate of the
\* capped range is accepted.
C4_Terminates ==
    (math_pc = "sampling" /\ Len(dots) < dots_wanted) =>
        \E x_span \in CappedSpansX, y_span \in CappedSpansY :
            ~Rejected(Position(Center(math_config), x_span, y_span), math_config, dots)

\* C5: the circles of radius font_size drawn at two dots of a page do not
\* intersect: the dots are at least 2 * font_size apart.
C5_CirclesDisjoint ==
    \A i, j \in DOMAIN dots :
        i # j => SquaredDistance(dots[i], dots[j])
                    >= (2 * math_config.font_size) * (2 * math_config.font_size)

\* the page centre (page_width / 2, page_height / 2), in units
PageCentre(config) == <<(config.page_width * MmUnits) \div 2,
                        (config.page_height * MmUnits) \div 2>>

\* half of the font height (ascent - |descent|) * font_size / 1000, in units
HalfFontHeight(config) ==
    ((FaceAscent(config.font_name) - Abs(FaceDescent(config.font_name)))
        * config.font_size * Unit) \div 2000

Within(value, low, high) == low <= value /\ value <= high

\* C10 as stated: a candidate is within [-x_max, x_max] and [-y_max, y_max] of the
\* page centre.
C10_OffsetFromPageCentre ==
    candidate # NoCandidate =>
        LET c == candidate.config
            xm == x_max(c, candidate.attempt_number) * Unit
            ym == y_max(c, candidate.attempt_number) * Unit
        IN  /\ Within(candidate.position[1] - PageCentre(c)[1], -xm, xm)
            /\ Within(candidate.position[2] - PageCentre(c)[2], -ym, ym)

\* C10 amended: a candidate is within [-x_max, x_max] and [-y_max, y_max] of the
\* centred position of the text (page_width / 2, page_height / 2 - font_height / 2),
\* which is the page centre only for a font of height zero.
C10_OffsetFromCentredPosition ==
    candidate # NoCandidate =>
        LET c == candidate.config
            xm == x_max(c, candidate.attempt_number) * Unit
            ym == y_max(c, candidate.attempt_number) * Unit
        IN  /\ Within(candidate.position[1] - PageCentre(c)[1], -xm, xm)
            /\ Within(candidate.position[2] - (PageCentre(c)[2] - HalfFontHeight(c)),
                      -ym, ym)

\* a candidate of a font with a height, at the lowest span of the range
C10_Witness ==
    /\ candidate # NoCandidate
    /\ candidate.config.font_name = "Helvetica"
    /\ candidate.y_span = -y_max(candidate.config, candidate.attempt_number)
    /\ candidate.x_span = x_max(candidate.config, candidate.attempt_number)
    /\ candidate.position[2] < PageCentre(candidate.config)[2] - candidate.y_span * Unit

----------------------------------------------------------------------------
(* parse_color *)

\* the parts of the string between its commas
Parts(s) == Split(s)

AllDigits(s) == s # <<>> /\ \A i \in DOMAIN s : IsDigit(s[i])

\* the whole string is four comma-separated integers
IsCmykQuadruple(s) ==
    Len(Parts(s)) = 4 /\ \A i \in 1..4 : AllDigits(Parts(s)[i])

\* the whole string is "#" and six or three hexadecimal digits
IsHexColour(s) ==
    /\ Len(s) \in {4, 7}
    /\ s[1] = 35
    /\ \A i \in 2..Len(s) : IsHexDigit(s[i])

\* C8: a CMYK quadruple yields its CMYK colour, a hex colour yields the colour of
\* its lower-cased digits, and any other string raises ValueError.
C8_ParseColor ==
    color_result # NotParsed =>
        /\ IsCmykQuadruple(color_value) =>
              color_result = [kind |-> "cmyk",
                              channels |-> [i \in 1..4 |-> IntValue(Parts(color_value)[i])]]
        /\ IsHexColour(color_value) =>
              color_result = HexColor(LowerCase(Tail(color_value)))
        /\ (~IsCmykQuadruple(color_value) /\ ~IsHexColour(color_value)) =>
              color_result = ValueError

\* ---------------------------------------------------------------------------
\* C11: the adaptive search radius of generate_math

\* a step of the while loop: one attempt, accepted or not
AttemptStep ==
    /\ math_pc = "sampling"
    /\ Len(dots) < dots_wanted
    /\ (attempt_number' # attempt_number \/ dots' # dots)

\* the attempt of this step appends a dot
DotAccepted == Len(dots') = Len(dots) + 1

\* n * font_size * 0.3 truncated to an integer
TruncatedRadius(n) == (3 * n * math_config.font_size) \div 10

\* page_width // 2 and page_height // 2, in points
HalfPageWidth == math_page_width(math_config) \div (2 * Unit)
HalfPageHeight == math_page_height(math_config) \div (2 * Unit)

\* the radius of an attempt as computed from the number n: the truncated product,
\* capped at half the page in each axis
RadiusFrom(n) ==
    [reducer |-> TruncatedRadius(n),
     x_max |-> IF TruncatedRadius(n) < HalfPageWidth
               THEN TruncatedRadius(n) ELSE HalfPageWidth,
     y_max |-> IF TruncatedRadius(n) < HalfPageHeight
               THEN TruncatedRadius(n) ELSE HalfPageHeight]

\* attempt_number starts at 5 for each count, grows by one on a rejected attempt
\* and is 5 again exactly after an accepted one
CounterDiscipline ==
    /\ dots_wanted' # dots_wanted => attempt_number' = 5
    /\ AttemptStep =>
          /\ DotAccepted \/ dots' = dots
          /\ DotAccepted => attempt_number' = 5
          /\ ~DotAccepted => attempt_number' = attempt_number + 1
    /\ (~AttemptStep /\ dots_wanted' = dots_wanted) =>
          attempt_number' = attempt_number

\* the radius of an attempt never exceeds half the page, and does not decrease
\* from one attempt to the next while no dot is accepted in between
RadiusBounds ==
    AttemptStep =>
        /\ 2 * search_radius'.x_max * Unit <= math_page_width(math_config)
        /\ 2 * search_radius'.y_max * Unit <= math_page_height(math_config)
        /\ attempt_number > 5 =>
              /\ search_radius'.reducer >= search_radius.reducer
              /\ search_radius'.x_max >= search_radius.x_max
              /\ search_radius'.y_max >= search_radius.y_max

\* C11 as stated: attempt_number starts at 5 for each count, is incremented on every
\* attempt and reset to 5 exactly when a dot is accepted; the radius of an attempt
\* is computed from the attempt_number the attempt starts with (5 for the first
\* attempt of a count and for the first after an acceptance), capped at half the
\* page, so that it never decreases between two acceptances and never exceeds half
\* the page.
C11_RadiusFromStartingNumber ==
    /\ math_pc = "sampling" => attempt_number = 5
    /\ [][/\ CounterDiscipline
          /\ RadiusBounds
          /\ AttemptStep => search_radius' = RadiusFrom(attempt_number)]_vars

\* C11 as the code has it: the same, with the radius of an attempt computed from the
\* attempt_number already incremented for that attempt (6 for the first attempt of
\* a count and for the first after an acceptance).
C11_RadiusFromIncrementedNumber ==
    /\ math_pc = "sampling" => attempt_number = 5
    /\ [][/\ CounterDiscipline
          /\ RadiusBounds
          /\ AttemptStep => search_radius' = RadiusFrom(attempt_number + 1)]_vars

\* after an accepted dot, attempts were rejected: the last one used the radius of
\* its incremented number, larger than the radius of the number it started with,
\* and the cap of the vertical axis applied
C11_Witness ==
    /\ math_pc = "sampling"
    /\ Len(dots) = 1
    /\ attempt_number > 6
    /\ search_radius = RadiusFrom(attempt_number)
    /\ search_radius.reducer > TruncatedRadius(attempt_number - 1)
    /\ search_radius.reducer > search_radius.y_max

\* ---------------------------------------------------------------------------
\* C12: the reduced font size of generate

\* the word generate was given was too wide and has been drawn, reduced
ReducedWord ==
    /\ fit_pages # NotGenerated
    /\ fit_pages # <<>>
    /\ TooWide(stringWidth(Strip(fit_input.word), fit_input.config.font_size),
               fit_input.config)

\* the width of the drawn word at the font size of its page: the width is
\* proportional to the font size
ReducedWidth ==
    RMul(Rat(GlyphSum(fit_pages[1].text), 1000), fit_pages[1].font_size)

\* max_allowed_text_width_ratio * page_width
AllowedWidth ==
    RMul(fit_input.config.max_allowed_text_width_ratio, page_width(fit_input.config))

\* C12: whenever generate reduces a word, the reduced font size is positive and the
\* word drawn at that size fits the allowed width:
\* 0 < reduced width <= max_allowed_text_width_ratio * page_width.
C12_ReducedFits ==
    ReducedWord =>
        /\ RLess(RInt(0), fit_pages[1].font_size)
        /\ RLess(RInt(0), ReducedWidth)
        /\ RLeq(ReducedWidth, AllowedWidth)

=============================================================================
